---------------------------- MODULE Spec2Model ----------------------------
(***************************************************************************)
(* A model of cif2cell's utils.py: Vector / LatticeVector folding and      *)
(* precision snapping, AtomSite equality and hashing, SymmetryOperation    *)
(* parsing and ordering, and the putincell helper.                         *)
(*                                                                         *)
(* Numbers.  A Python float is modelled as an integer count of grid units, *)
(* one == 15000 units standing for 1.0, so that every constant of          *)
(* floatlist except sqrt(2) and compeps = 0.0002 (3 units) are exact.     *)
(* Arithmetic on grid values is exact, except that a double carries a      *)
(* finite significand: a value of magnitude >= Big absorbs the addition    *)
(* of +-1.0 (for IEEE doubles this happens from 2^54 on; the model scales  *)
(* the threshold down to fit TLC's integers).                              *)
(*                                                                         *)
(* Sequences are 1-based: vec[1], vec[2], vec[3] are the source's          *)
(* self[0], self[1], self[2].                                              *)
(***************************************************************************)
EXTENDS Integers, Sequences, FiniteSets, TLC

VARIABLES
    a, b,          \* two LatticeVector objects: [vec, interval]
    t,             \* the object returned by the last a + b, or a marker
    call,          \* the last LatticeVector call made: [op, arg, pre]
    s1, s2,        \* two AtomSite objects: [position, species]
    terms,         \* the three term lists the equivalent-site strings were written from
    eqsite,        \* the three equivalent-site strings handed to SymmetryOperation
    op,            \* the SymmetryOperation built from eqsite, or a marker
    op2,           \* a second SymmetryOperation, compared with op
    pc,            \* position inside intocell / putincell
    coords,        \* the list being folded in place
    idx,           \* the loop index i of intocell / putincell (1..3)
    interval,      \* self.interval of the vector inside intocell
    coordepsilon   \* the coordepsilon argument of putincell

vars == <<a, b, t, call, s1, s2, terms, eqsite, op, op2, pc, coords, idx, interval, coordepsilon>>

lvVars == <<a, b, t, call>>
siteVars == <<s1, s2>>
symVars == <<terms, eqsite, op, op2>>
loopVars == <<pc, coords, idx, interval, coordepsilon>>

---------------------------------------------------------------------------
(* Miscellaneous constants, utils.py lines 29-40 and 81.                   *)

one == 15000
zero == 0
half == one \div 2
third == one \div 3
fourth == one \div 4
sixth == one \div 6
\* sqrt(2.0) = 1.41421356..., rounded to the grid
sqrt2 == 21213
compeps == 3

floatlist == <<third, 2 * third, half, fourth, one, zero, sqrt2, sixth, 5 * sixth>>

\* Magnitude from which a float no longer changes when 1.0 is added or subtracted.
Big == 2 ^ 30

Abs(x) == IF x < 0 THEN -x ELSE x

\* x - y for floats, y being +-1.0
FSub(x, y) == IF Abs(x) >= Big THEN x ELSE x - y

\* x + y for floats, y being +-1.0
FAdd(x, y) == IF Abs(x) >= Big THEN x ELSE x + y

\* Return x with the sign of y
copysign(x, y) == IF y >= 0 THEN x ELSE -x

---------------------------------------------------------------------------
(* Vector and LatticeVector.                                               *)

UnitInterval == <<zero, one>>
CenteredInterval == <<-half, half>>

InInterval(x, iv) == iv[1] <= x /\ x < iv[2]

\* The while loop of intocell on one component.
RECURSIVE IntocellComponent(_, _)
IntocellComponent(x, iv) ==
    IF InInterval(x, iv) THEN x
    ELSE IntocellComponent(FSub(x, copysign(one, x)), iv)

intocell(self) ==
    [self EXCEPT !.vec = [i \in 1..3 |-> IntocellComponent(self.vec[i], self.interval)]]

\* The inner loop of improveprecision: the first f of floatlist within eps of x.
RECURSIVE Snap(_, _, _)
Snap(x, eps, k) ==
    IF k > Len(floatlist) THEN x
    ELSE IF Abs(x - floatlist[k]) <= eps THEN floatlist[k]
    ELSE Snap(x, eps, k + 1)

improveprecision(self) ==
    [self EXCEPT !.vec = [i \in 1..3 |-> Snap(self.vec[i], compeps, 1)]]

\* LatticeVector.__init__
LatticeVector(vec) ==
    improveprecision(intocell([cls |-> "LatticeVector", vec |-> vec, interval |-> UnitInterval]))

\* Python's None, and a raised exception, as values of the same shape as objects
None == [cls |-> "None"]
GeometryObjectError == [cls |-> "GeometryObjectError"]

\* LatticeVector.__add__
LatticeVectorAdd(self, other) ==
    IF self.interval[1] # other.interval[1] \/ self.interval[2] # other.interval[2]
    THEN GeometryObjectError
    ELSE intocell(LatticeVector([i \in 1..3 |-> self.vec[i] + other.vec[i]]))

\* LatticeVector.change_interval: the sum is bound to the local name self and
\* dropped; the object keeps its components and gets the new interval.
change_interval(self, newinterval) ==
    LET self1 == [self EXCEPT !.interval = newinterval]
        t0 == [LatticeVector(<<0, 0, 0>>) EXCEPT !.interval = newinterval]
        local == LatticeVectorAdd(self1, t0)
    IN  self1

\* Vector.__eq__
VectorEq(self, other) == \A i \in 1..3 : ~(Abs(self[i] - other[i]) > compeps)

\* self[0]**2+self[1]**2+self[2]**2, in squared grid units
SqNorm(v) == v[1] * v[1] + v[2] * v[2] + v[3] * v[3]

---------------------------------------------------------------------------
(* LatticeVector operations on two objects a and b.                        *)

MaxCells == 2

\* Fractional parts around the snapping thresholds of 0 and 1
Fracs == {zero, 1, compeps, compeps + 1, fourth, half, 3 * fourth,
          one - compeps - 1, one - compeps, one - 1}

RawX == {f + n * one : f \in Fracs, n \in (-MaxCells)..MaxCells}
RawYZ == {zero, 3 * fourth, one - 1}
RawA == {<<x, y, z>> : x \in RawX, y \in RawYZ, z \in RawYZ}
RawB == {<<x, zero, z>> : x \in {zero, fourth, half, -fourth, one - 1}, z \in {zero, half}}

Intervals == {UnitInterval, CenteredInterval}

NoCall == [op |-> "none", arg |-> <<>>, pre |-> <<>>]

LvInit ==
    /\ a = LatticeVector(<<0, 0, 0>>)
    /\ b = LatticeVector(<<0, 0, 0>>)
    /\ t = None
    /\ call = NoCall

\* a = LatticeVector(v), the first call made
NewA ==
    /\ call.op = "none"
    /\ \E v \in RawA :
        /\ a' = LatticeVector(v)
        /\ t' = None
        /\ call' = [op |-> "new_a", arg |-> v, pre |-> a.vec]
    /\ UNCHANGED b

\* b = LatticeVector(v), the second call made
NewB ==
    /\ call.op = "new_a"
    /\ \E v \in RawB :
        /\ b' = LatticeVector(v)
        /\ t' = None
        /\ call' = [op |-> "new_b", arg |-> v, pre |-> b.vec]
    /\ UNCHANGED a

\* a.change_interval(iv)
ChangeIntervalA ==
    \E iv \in Intervals :
        /\ a' = change_interval(a, iv)
        /\ t' = None
        /\ call' = [op |-> "change_interval_a", arg |-> iv, pre |-> a.vec]
        /\ UNCHANGED b

\* b.change_interval(iv)
ChangeIntervalB ==
    \E iv \in Intervals :
        /\ b' = change_interval(b, iv)
        /\ t' = None
        /\ call' = [op |-> "change_interval_b", arg |-> iv, pre |-> b.vec]
        /\ UNCHANGED a

\* t = a + b
Add ==
    /\ t' = LatticeVectorAdd(a, b)
    /\ call' = [op |-> "add", arg |-> b.vec, pre |-> a.vec]
    /\ UNCHANGED <<a, b>>

---------------------------------------------------------------------------
(* AtomSite.                                                               *)

\* hash() of a float, taken on the exact value in tenths of a grid unit:
\* floats of different value hash differently
HashModulus == 2 ^ 29
HashFloat(tenths) == tenths % HashModulus

\* Vector.__hash__: hash(1.1*self[0]+1.2*self[1]+1.3*self[2])
VectorHash(self) == HashFloat(11 * self[1] + 12 * self[2] + 13 * self[3])

\* sorted() of element symbols
SortedSymbols == <<"Co", "Fe", "Mn">>
SymbolCode(sym) == CHOOSE k \in 1..Len(SortedSymbols) : SortedSymbols[k] = sym

\* ''.join(sorted(self.species.keys())), as the sequence of the joined symbols
RECURSIVE JoinSorted(_, _)
JoinSorted(species, k) ==
    IF k > Len(SortedSymbols) THEN <<>>
    ELSE (IF SortedSymbols[k] \in DOMAIN species THEN <<SortedSymbols[k]>> ELSE <<>>)
         \o JoinSorted(species, k + 1)

\* hash() of a string: a polynomial over its symbols
RECURSIVE HashStr(_, _)
HashStr(str, h) ==
    IF str = <<>> THEN h
    ELSE HashStr(Tail(str), (31 * h + SymbolCode(Head(str))) % HashModulus)

\* sum(self.species.values())
RECURSIVE SumValues(_, _)
SumValues(species, keys) ==
    IF keys = {} THEN 0
    ELSE LET k == CHOOSE x \in keys : TRUE
         IN  species[k] + SumValues(species, keys \ {k})

\* AtomSite.__init__ with a position and a species dictionary
AtomSite(position, species) ==
    [cls |-> "AtomSite", position |-> LatticeVector(position), species |-> species]

\* AtomSite.__hash__
AtomSiteHash(self) ==
    VectorHash(self.position.vec) + HashStr(JoinSorted(self.species, 1), 0)
    + HashFloat(10 * SumValues(self.species, DOMAIN self.species))

\* AtomSite.__eq__
AtomSiteEq(self, other) ==
    VectorEq(self.position.vec, other.position.vec) /\ self.species = other.species

MaxDelta == 4

SiteX == {base + d : base \in {zero, one \div 5, half, one - compeps - 2}, d \in 0..MaxDelta}
SitePositions == {<<x, y, zero>> : x \in SiteX, y \in {zero, fourth + 1}}
SpeciesMaps == {[k \in {"Fe"} |-> one], [k \in {"Co", "Fe"} |-> half],
                [k \in {"Mn"} |-> one]}

SiteInit ==
    /\ s1 = AtomSite(<<0, 0, 0>>, [k \in {"Fe"} |-> one])
    /\ s2 = AtomSite(<<0, 0, 0>>, [k \in {"Fe"} |-> one])

\* s1 = AtomSite(position=p, species=sp)
NewSite1 ==
    \E p \in SitePositions, sp \in SpeciesMaps :
        /\ s1' = AtomSite(p, sp)
        /\ UNCHANGED s2

\* s2 = AtomSite(position=p, species=sp)
NewSite2 ==
    \E p \in SitePositions, sp \in SpeciesMaps :
        /\ s2' = AtomSite(p, sp)
        /\ UNCHANGED s1

---------------------------------------------------------------------------
(* Strings are sequences of one-character strings.                         *)

\* str.replace(c, ' ' + c)
RECURSIVE ReplaceWithSpace(_, _)
ReplaceWithSpace(str, c) ==
    IF str = <<>> THEN <<>>
    ELSE (IF Head(str) = c THEN <<" ", c>> ELSE <<Head(str)>>)
         \o ReplaceWithSpace(Tail(str), c)

\* str.split(): the maximal runs of non-blank characters
RECURSIVE SplitFrom(_, _, _)
SplitFrom(str, cur, acc) ==
    IF str = <<>> THEN (IF cur = <<>> THEN acc ELSE Append(acc, cur))
    ELSE IF Head(str) = " "
         THEN SplitFrom(Tail(str), <<>>, IF cur = <<>> THEN acc ELSE Append(acc, cur))
         ELSE SplitFrom(Tail(str), Append(cur, Head(str)), acc)

Split(str) == SplitFrom(str, <<>>, <<>>)

RECURSIVE LStrip(_, _)
LStrip(str, chars) ==
    IF str # <<>> /\ Head(str) \in chars THEN LStrip(Tail(str), chars) ELSE str

RECURSIVE RStrip(_, _)
RStrip(str, chars) ==
    IF str # <<>> /\ str[Len(str)] \in chars
    THEN RStrip(SubSeq(str, 1, Len(str) - 1), chars) ELSE str

\* str.strip(chars)
Strip(str, chars) == RStrip(LStrip(str, chars), chars)

DigitChars == <<"0", "1", "2", "3", "4", "5", "6", "7", "8", "9">>
IsDigit(c) == \E k \in 1..10 : DigitChars[k] = c
DigitValue(c) == (CHOOSE k \in 1..10 : DigitChars[k] = c) - 1

IsNat(str) == str # <<>> /\ \A k \in 1..Len(str) : IsDigit(str[k])

RECURSIVE NatValue(_, _)
NatValue(str, acc) ==
    IF str = <<>> THEN acc ELSE NatValue(Tail(str), 10 * acc + DigitValue(Head(str)))

\* The position of the first '/' of str, or 0
RECURSIVE SlashAt(_, _)
SlashAt(str, k) ==
    IF k > Len(str) THEN 0 ELSE IF str[k] = "/" THEN k ELSE SlashAt(str, k + 1)

SignOf(str) == IF str # <<>> /\ Head(str) = "-" THEN -1 ELSE 1
Unsigned(str) == IF str # <<>> /\ Head(str) \in {"+", "-"} THEN Tail(str) ELSE str

\* float(str) of an optionally signed run of digits, in grid units
PyFloat(str) == SignOf(str) * NatValue(Unsigned(str), 0) * one

\* eval(str) under true division: an optionally signed n or n/d gives its value in
\* grid units (the literals used here divide exactly); a token holding a name, a
\* malformed one, or a division by zero raises.
PyEval(str) ==
    LET body == Unsigned(str)
        k == SlashAt(body, 1)
        num == IF k = 0 THEN body ELSE SubSeq(body, 1, k - 1)
        den == IF k = 0 THEN <<"1">> ELSE SubSeq(body, k + 1, Len(body))
    IN  IF IsNat(num) /\ IsNat(den) /\ NatValue(den, 0) # 0
        THEN [ok |-> TRUE, val |-> SignOf(str) * ((NatValue(num, 0) * one) \div NatValue(den, 0))]
        ELSE [ok |-> FALSE, val |-> 0]

---------------------------------------------------------------------------
(* SymmetryOperation.                                                      *)

VarChars == <<"x", "y", "z">>

\* self.eqsite[j].replace('+',' +').replace('-',' -').split()
Tokens(expr) == Split(ReplaceWithSpace(ReplaceWithSpace(expr, "+"), "-"))

\* The loop of rotmat over the tokens of one expression, for one variable: the
\* entry is overwritten by each token that is the variable with an optional sign.
RECURSIVE RotScan(_, _, _)
RotScan(toks, var, cur) ==
    IF toks = <<>> THEN cur
    ELSE RotScan(Tail(toks), var,
                 IF Strip(Head(toks), {"+", "-"}) = <<var>>
                 THEN PyFloat(Strip(Head(toks), {var}) \o <<"1">>)
                 ELSE cur)

\* The same scan stored with the expression as the row and the variable as the column
rotmatByExpression(eqs) ==
    LET xyz == [j \in 1..3 |-> Tokens(eqs[j])]
    IN  [j \in 1..3 |-> [c \in 1..3 |-> RotScan(xyz[j], VarChars[c], 0)]]

\* SymmetryOperation.rotmat: mat[c][j] for variable c found in expression j
rotmat(eqs) ==
    LET xyz == [j \in 1..3 |-> Tokens(eqs[j])]
    IN  [c \in 1..3 |-> [j \in 1..3 |-> RotScan(xyz[j], VarChars[c], 0)]]

\* The loop of transvec over the tokens of one expression: vec[j] is overwritten by
\* eval of each token that is more than signs and variable letters.
RECURSIVE TransScan(_, _)
TransScan(toks, cur) ==
    IF toks = <<>> \/ ~cur.ok THEN cur
    ELSE TransScan(Tail(toks),
                   IF Strip(Head(toks), {"+", "-", "x", "y", "z"}) # <<>>
                   THEN PyEval(Head(toks))
                   ELSE cur)

\* An exception raised by eval (NameError, SyntaxError, ZeroDivisionError)
EvalException == [cls |-> "Exception"]

\* SymmetryOperation.transvec
transvec(eqs) ==
    LET r == [j \in 1..3 |-> TransScan(Tokens(eqs[j]), [ok |-> TRUE, val |-> 0])]
    IN  IF \A j \in 1..3 : r[j].ok
        THEN LatticeVector([j \in 1..3 |-> r[j].val])
        ELSE EvalException

\* The constructor keeping what transvec returned
SymmetryOperationSingleFold(eqs) ==
    LET tv == transvec(eqs)
    IN  IF tv.cls # "LatticeVector" THEN tv
        ELSE [cls |-> "SymmetryOperation", rotation |-> rotmat(eqs), translation |-> tv]

\* SymmetryOperation.__init__ with an eqsite
SymmetryOperation(eqs) ==
    LET tv == transvec(eqs)
    IN  IF tv.cls # "LatticeVector" THEN tv
        ELSE [cls |-> "SymmetryOperation", rotation |-> rotmat(eqs),
              translation |-> LatticeVector(tv.vec)]

\* SymmetryOperation.__init__ without an eqsite
EmptySymmetryOperation ==
    [cls |-> "SymmetryOperation", rotation |-> None, translation |-> None]

\* SymmetryOperation.diagonal
diagonal(self) ==
    /\ Abs(self.rotation[1][2]) < compeps
    /\ Abs(self.rotation[1][3]) < compeps
    /\ Abs(self.rotation[2][1]) < compeps
    /\ Abs(self.rotation[2][3]) < compeps
    /\ Abs(self.rotation[3][1]) < compeps
    /\ Abs(self.rotation[3][2]) < compeps

\* Vector.__lt__
VectorLt(self, other) == SqNorm(self) < SqNorm(other)

\* SymmetryOperation.__eq__
SymEq(self, other) ==
    /\ \A i \in 1..3, j \in 1..3 : Abs(self.rotation[i][j] - other.rotation[i][j]) < compeps
    /\ VectorEq(self.translation.vec, other.translation.vec)

\* The ordering without the identity case
SymLtNoIdentity(self, other) ==
    IF VectorLt(self.translation.vec, other.translation.vec) THEN TRUE
    ELSE IF VectorLt(other.translation.vec, self.translation.vec) THEN FALSE
    ELSE IF diagonal(self) THEN ~diagonal(other)
    ELSE FALSE

\* SymmetryOperation.__lt__
SymLt(self, other) ==
    IF VectorLt(self.translation.vec, other.translation.vec) THEN TRUE
    ELSE IF VectorLt(other.translation.vec, self.translation.vec) THEN FALSE
    ELSE IF diagonal(self)
         THEN IF ~diagonal(other) THEN TRUE
              ELSE IF self.rotation[1][1] = one /\ self.rotation[2][2] = one
                      /\ self.rotation[3][3] = one
                   THEN TRUE
                   ELSE FALSE
    ELSE FALSE

---------------------------------------------------------------------------
(* Equivalent-site strings are written from lists of signed terms: a       *)
(* coordinate variable, a numeric literal n or n/d, or some other run of   *)
(* characters.                                                             *)

VarTerm(s, v) == [k |-> "var", s |-> s, v |-> v, n |-> 0, d |-> 1, junk |-> <<>>]
NumTerm(s, n, d) == [k |-> "num", s |-> s, v |-> 0, n |-> n, d |-> d, junk |-> <<>>]
JunkTerm(s, chars) == [k |-> "junk", s |-> s, v |-> 0, n |-> 0, d |-> 1, junk |-> chars]

\* The decimal digits of a natural number
RECURSIVE Digits(_)
Digits(n) ==
    IF n < 10 THEN <<DigitChars[n + 1]>>
    ELSE Digits(n \div 10) \o <<DigitChars[(n % 10) + 1]>>

TermBody(term) ==
    CASE term.k = "var" -> <<VarChars[term.v]>>
      [] term.k = "num" -> Digits(term.n) \o (IF term.d = 1 THEN <<>> ELSE <<"/">> \o Digits(term.d))
      [] OTHER -> term.junk

RECURSIVE WriteTerms(_)
WriteTerms(ts) ==
    IF ts = <<>> THEN <<>> ELSE <<Head(ts).s>> \o TermBody(Head(ts)) \o WriteTerms(Tail(ts))

\* The string of an expression; a leading '+' is left out when bare
WriteExpression(e) ==
    LET str == WriteTerms(e.ts) IN IF e.bare THEN Tail(str) ELSE str

MaxTerms == 2

Signs == {"+", "-"}
\* 1/2, 1/4, 1, and the two literals next to 1: 14999/15000 and 15001/15000
Literals == {<<1, 2>>, <<1, 4>>, <<1, 1>>, <<one + 1, one>>, <<one - 1, one>>}

VarTerms == {VarTerm(s, v) : s \in Signs, v \in 1..3}
NumTerms == {NumTerm(s, l[1], l[2]) : s \in Signs, l \in Literals}
JunkTerms == {JunkTerm("+", <<"x", "y">>), JunkTerm("+", <<"z", "z">>),
              JunkTerm("-", <<"x", "1">>)}
AllTerms == VarTerms \cup NumTerms \cup JunkTerms

TermLists == UNION {[1..n -> AllTerms] : n \in 1..MaxTerms}

Expr(ts, bare) == [ts |-> ts, bare |-> bare]

\* Expressions for the first axis: every term list, with and without the leading '+'
Expressions0 ==
    {Expr(ts, FALSE) : ts \in TermLists}
    \cup {Expr(ts, TRUE) : ts \in {l \in TermLists : l[1].s = "+"}}

\* Expressions for the second and third axis
Expressions1 == {Expr(<<VarTerm("+", 2)>>, TRUE), Expr(<<VarTerm("+", 1)>>, TRUE),
                 Expr(<<VarTerm("-", 2), NumTerm("+", 1, 2)>>, FALSE),
                 Expr(<<VarTerm("+", 3), NumTerm("+", 1, 4)>>, TRUE)}
Expressions2 == {Expr(<<VarTerm("+", 3)>>, TRUE), Expr(<<VarTerm("-", 3)>>, FALSE),
                 Expr(<<VarTerm("+", 2)>>, TRUE)}

SymInit ==
    /\ terms = <<>>
    /\ eqsite = None
    /\ op = EmptySymmetryOperation
    /\ op2 = EmptySymmetryOperation

\* op = SymmetryOperation(eqsite), the strings written from three term lists; an
\* operation is constructed once
Parse ==
    /\ eqsite = None
    /\ \E e0 \in Expressions0, e1 \in Expressions1, e2 \in Expressions2 :
        LET strs == <<WriteExpression(e0), WriteExpression(e1), WriteExpression(e2)>>
        IN  /\ terms' = <<e0, e1, e2>>
            /\ eqsite' = strs
            /\ op' = SymmetryOperation(strs)
    /\ UNCHANGED op2

\* Expressions for a pair of operations: signed variables with or without 1/2 or 1/4
PairExpressions0 == {Expr(<<VarTerm("+", 1)>>, TRUE), Expr(<<VarTerm("-", 1)>>, FALSE),
                     Expr(<<VarTerm("+", 1), NumTerm("+", 1, 2)>>, TRUE),
                     Expr(<<VarTerm("+", 1), NumTerm("+", 1, 4)>>, TRUE),
                     Expr(<<VarTerm("+", 2)>>, TRUE)}
PairExpressions1 == {Expr(<<VarTerm("+", 2)>>, TRUE), Expr(<<VarTerm("-", 2)>>, FALSE),
                     Expr(<<VarTerm("+", 2), NumTerm("+", 1, 2)>>, TRUE),
                     Expr(<<VarTerm("+", 1)>>, TRUE)}
PairExpressions2 == {Expr(<<VarTerm("+", 3)>>, TRUE), Expr(<<VarTerm("-", 3)>>, FALSE)}

\* op = SymmetryOperation(eqsite), the first operation of a pair
ParseFirst ==
    /\ eqsite = None
    /\ \E e0 \in PairExpressions0, e1 \in PairExpressions1, e2 \in PairExpressions2 :
        LET strs == <<WriteExpression(e0), WriteExpression(e1), WriteExpression(e2)>>
        IN  /\ terms' = <<e0, e1, e2>>
            /\ eqsite' = strs
            /\ op' = SymmetryOperation(strs)
    /\ UNCHANGED op2

\* op2 = SymmetryOperation(...), the second operation of a pair
ParseOther ==
    /\ op2 = EmptySymmetryOperation
    /\ \E e0 \in PairExpressions0, e1 \in PairExpressions1, e2 \in PairExpressions2 :
        op2' = SymmetryOperation(<<WriteExpression(e0), WriteExpression(e1),
                                     WriteExpression(e2)>>)
    /\ UNCHANGED <<terms, eqsite, op>>

---------------------------------------------------------------------------
(* The loops of LatticeVector.intocell and putincell, one iteration per    *)
(* step, on the list coords.                                               *)

LoopX == RawX \cup {Big, -Big}
LoopVecs == {<<x, y, z>> : x \in LoopX, y \in {zero, -fourth}, z \in {half, one + 1}}
Epsilons == {1, compeps, one \div 1000, fourth}

Returned == {"idle", "intocell_done", "putincell_done"}

LoopInit ==
    /\ pc = "idle"
    /\ coords = <<0, 0, 0>>
    /\ idx = 1
    /\ interval = UnitInterval
    /\ coordepsilon = 1

\* self.intocell() is entered on a vector v with self.interval = iv
CallIntocell ==
    /\ pc \in Returned
    /\ \E v \in LoopVecs, iv \in Intervals :
        /\ coords' = v
        /\ interval' = iv
    /\ idx' = 1
    /\ pc' = "intocell"
    /\ UNCHANGED coordepsilon

\* while not (self.interval[0] <= self[i] < self.interval[1]): the body. On a
\* component of magnitude >= Big the subtraction returns the component itself: the
\* iteration ends in the state it started from, with the condition still true.
IntocellBody ==
    /\ pc = "intocell"
    /\ ~InInterval(coords[idx], interval)
    /\ coords' = [coords EXCEPT ![idx] = FSub(coords[idx], copysign(one, coords[idx]))]
    /\ UNCHANGED <<pc, idx, interval, coordepsilon>>

\* the while condition fails: the next i, or the return after the third
IntocellNext ==
    /\ pc = "intocell"
    /\ InInterval(coords[idx], interval)
    /\ IF idx < 3
       THEN idx' = idx + 1 /\ pc' = pc
       ELSE idx' = idx /\ pc' = "intocell_done"
    /\ UNCHANGED <<coords, interval, coordepsilon>>

\* putincell(coords, coordepsilon) is entered
CallPutincell ==
    /\ pc \in Returned
    /\ \E v \in LoopVecs, e \in Epsilons :
        /\ coords' = v
        /\ coordepsilon' = e
    /\ idx' = 1
    /\ pc' = "putincell_positive"
    /\ UNCHANGED interval

\* while coords[i] < 0: the body
PutincellAdd ==
    /\ pc = "putincell_positive"
    /\ coords[idx] < 0
    /\ coords' = [coords EXCEPT ![idx] = FAdd(coords[idx], one)]
    /\ UNCHANGED <<pc, idx, interval, coordepsilon>>

\* the first while condition fails
PutincellPositive ==
    /\ pc = "putincell_positive"
    /\ ~(coords[idx] < 0)
    /\ pc' = "putincell_primitive"
    /\ UNCHANGED <<coords, idx, interval, coordepsilon>>

\* while coords[i] > 1-coordepsilon: the body
PutincellSub ==
    /\ pc = "putincell_primitive"
    /\ coords[idx] > one - coordepsilon
    /\ coords' = [coords EXCEPT ![idx] = FSub(coords[idx], one)]
    /\ UNCHANGED <<pc, idx, interval, coordepsilon>>

\* the second while condition fails: the next i, or the return after the third
PutincellNext ==
    /\ pc = "putincell_primitive"
    /\ ~(coords[idx] > one - coordepsilon)
    /\ IF idx < 3
       THEN idx' = idx + 1 /\ pc' = "putincell_positive"
       ELSE idx' = idx /\ pc' = "putincell_done"
    /\ UNCHANGED <<coords, interval, coordepsilon>>

---------------------------------------------------------------------------
(* Specifications: one per group of operations; the variables of the other *)
(* groups keep their initial values.                                       *)

Init == LvInit /\ SiteInit /\ SymInit /\ LoopInit

Next ==
    \/ (NewA /\ UNCHANGED <<siteVars, symVars, loopVars>>)
    \/ (NewB /\ UNCHANGED <<siteVars, symVars, loopVars>>)
    \/ (ChangeIntervalA /\ UNCHANGED <<siteVars, symVars, loopVars>>)
    \/ (ChangeIntervalB /\ UNCHANGED <<siteVars, symVars, loopVars>>)
    \/ (Add /\ UNCHANGED <<siteVars, symVars, loopVars>>)

Spec == Init /\ [][Next]_vars

SiteNext ==
    \/ (NewSite1 /\ UNCHANGED <<lvVars, symVars, loopVars>>)
    \/ (NewSite2 /\ UNCHANGED <<lvVars, symVars, loopVars>>)

SiteSpec == Init /\ [][SiteNext]_vars

SymNext == Parse /\ UNCHANGED <<lvVars, siteVars, loopVars>>

SymSpec == Init /\ [][SymNext]_vars

PairNext ==
    \/ (ParseFirst /\ UNCHANGED <<lvVars, siteVars, loopVars>>)
    \/ (ParseOther /\ UNCHANGED <<lvVars, siteVars, loopVars>>)

PairSpec == Init /\ [][PairNext]_vars

LoopNext ==
    \/ (CallIntocell /\ UNCHANGED <<lvVars, siteVars, symVars>>)
    \/ (IntocellBody /\ UNCHANGED <<lvVars, siteVars, symVars>>)
    \/ (IntocellNext /\ UNCHANGED <<lvVars, siteVars, symVars>>)
    \/ (CallPutincell /\ UNCHANGED <<lvVars, siteVars, symVars>>)
    \/ (PutincellAdd /\ UNCHANGED <<lvVars, siteVars, symVars>>)
    \/ (PutincellPositive /\ UNCHANGED <<lvVars, siteVars, symVars>>)
    \/ (PutincellSub /\ UNCHANGED <<lvVars, siteVars, symVars>>)
    \/ (PutincellNext /\ UNCHANGED <<lvVars, siteVars, symVars>>)

\* The interpreter keeps running a loop whose condition holds
LoopSpec == Init /\ [][LoopNext]_vars /\ WF_vars(LoopNext)

---------------------------------------------------------------------------
(* Properties.                                                             *)

InUnitCell(vec) == \A i \in 1..3 : zero <= vec[i] /\ vec[i] < one

\* C1: right after a = LatticeVector(v), every component c of a satisfies
\* 0 <= c < 1.
C1_ConstructedInUnitCell ==
    call.op = "new_a" => InUnitCell(a.vec)

\* C2: when a and b carry the same interval, a + b is a LatticeVector whose every
\* component lies in that interval.
C2_SumInSharedInterval ==
    (call.op = "add" /\ a.interval = b.interval)
        => /\ t.cls = "LatticeVector"
           /\ \A i \in 1..3 : InInterval(t.vec[i], a.interval)

\* C3: after a.change_interval(iv), a's interval is iv, every component of a lies
\* in iv, and each component differs from its value before the call by an integer.
C3_ChangeIntervalRefolds ==
    call.op = "change_interval_a"
        => /\ a.interval = call.arg
           /\ \A i \in 1..3 : InInterval(a.vec[i], call.arg)
           /\ \A i \in 1..3 : (a.vec[i] - call.pre[i]) % one = 0

\* C7: two AtomSites with identical species whose positions differ by less than
\* compeps in every component are equal and have the same hash.
C7_CloseSitesEqualAndHashAlike ==
    (/\ s1.species = s2.species
     /\ \A i \in 1..3 : Abs(s1.position.vec[i] - s2.position.vec[i]) < compeps)
        => AtomSiteEq(s1, s2) /\ AtomSiteHash(s1) = AtomSiteHash(s2)

\* op was built from strings and no exception was raised
Resolved == eqsite # None /\ op.cls = "SymmetryOperation"

\* Every term of the three term lists is a signed variable or a signed literal
Grammatical ==
    terms # <<>> /\ \A r \in 1..3 : \A k \in 1..Len(terms[r].ts) : terms[r].ts[k].k # "junk"

\* The sign (as +-1.0) of the last term of ts that is variable c, or 0
RECURSIVE LastVar(_, _, _)
LastVar(ts, c, k) ==
    IF k = 0 THEN 0
    ELSE IF ts[k].k = "var" /\ ts[k].v = c THEN (IF ts[k].s = "-" THEN -one ELSE one)
    ELSE LastVar(ts, c, k - 1)

\* The value of the last literal of ts, or 0
RECURSIVE LastLiteral(_, _)
LastLiteral(ts, k) ==
    IF k = 0 THEN 0
    ELSE IF ts[k].k = "num"
         THEN (IF ts[k].s = "-" THEN -1 ELSE 1) * ((ts[k].n * one) \div ts[k].d)
    ELSE LastLiteral(ts, k - 1)

\* x and y are the same point of the unit cell up to compeps
SamePointModOne(x, y) ==
    LET d == (x - y) % one IN d <= compeps \/ d >= one - compeps

\* translation[r] is set by the last literal of expression r
TranslationFromLiterals ==
    \A r \in 1..3 :
        SamePointModOne(op.translation.vec[r], LastLiteral(terms[r].ts, Len(terms[r].ts)))

\* C4 as stated: a grammatical string parses, a term +-x, +-y, +-z in expression r
\* sets rotation[r][c] = +-1 for the variable's index c, the other entries are 0,
\* and a literal in expression r sets translation[r].
C4_RowIsExpression ==
    Grammatical
        => /\ Resolved
           /\ \A r \in 1..3, c \in 1..3 :
                  op.rotation[r][c] = LastVar(terms[r].ts, c, Len(terms[r].ts))
           /\ TranslationFromLiterals

\* C4 amended: the same with rotation[c][r] in place of rotation[r][c]: the row is
\* the variable, the column is the expression.
C4_RowIsVariable ==
    Grammatical
        => /\ Resolved
           /\ \A r \in 1..3, c \in 1..3 :
                  op.rotation[c][r] = LastVar(terms[r].ts, c, Len(terms[r].ts))
           /\ TranslationFromLiterals

\* "-y+1/2,x,z" (or the like) was parsed: a rotation that is not symmetric
C4_Witness ==
    /\ Grammatical /\ Resolved
    /\ op.rotation[2][1] = -one /\ op.rotation[1][2] = one
    /\ op.translation.vec[1] = half

\* C5: an equivalent-site expression holding a token that is neither a signed
\* variable nor a signed literal ends in a parse error.
C5_JunkIsParseError ==
    (terms # <<>> /\ ~Grammatical) => op.cls = "Exception"

\* The operation parsed from "x,y,z"
IdentityOperation == SymmetryOperation(<<<<"x">>, <<"y">>, <<"z">>>>)

\* C6: the operation I parsed from "x,y,z" has I < o and not o < I for every
\* resolved operation o that is not equal to I.
C6_IdentitySortsFirst ==
    (Resolved /\ ~SymEq(op, IdentityOperation))
        => SymLt(IdentityOperation, op) /\ ~SymLt(op, IdentityOperation)

\* A diagonal operation other than the identity with a zero translation was parsed
C6_Witness ==
    /\ Resolved /\ ~SymEq(op, IdentityOperation)
    /\ diagonal(op) /\ SqNorm(op.translation.vec) = 0

\* C8: the translation of every resolved operation has every component in [0,1).
C8_TranslationInUnitCell ==
    Resolved => InUnitCell(op.translation.vec)

\* A literal within compeps below 1 and a negative literal were parsed
C8_Witness ==
    /\ Resolved
    /\ terms[1].ts = <<NumTerm("+", one - 1, one)>>
    /\ terms[2].ts = <<VarTerm("-", 2), NumTerm("+", 1, 2)>>
    /\ op.translation.vec[1] = zero

\* C9: intocell terminates, with every component in the interval.
C9_IntocellTerminates ==
    [](pc = "intocell"
        => <>(pc = "intocell_done" /\ \A i \in 1..3 : InInterval(coords[i], interval)))

\* C10: after putincell every coordinate x satisfies 0 <= x < 1.
C10_PutincellInUnitCell ==
    pc = "putincell_done" => InUnitCell(coords)

\* C11: < is a strict order on resolved operations: a < a is never true, and
\* a < b and b < a are never both true.
C11_LtIsStrict ==
    (Resolved /\ op2 # EmptySymmetryOperation)
        => /\ ~SymLt(op, op)
           /\ ~SymLt(op2, op2)
           /\ ~(SymLt(op, op2) /\ SymLt(op2, op))

====
